---- MODULE Spec2Model ----
(***************************************************************************)
(* paper-benchmark: the dispatcher of src/main.rs, the workers of           *)
(* src/client.rs and the collector of src/stats.rs as one state machine.    *)
(*                                                                          *)
(* `now` is the wall clock (Instant::now()) in milliseconds; it advances by  *)
(* the pacing sleep of the dispatcher and by an idle timeout of a worker.   *)
(* An RPC lasts some microseconds (RpcTimes), below the resolution of the   *)
(* clock: it is what instant.elapsed() returns.  Option<T> is a sequence of *)
(* length <= 1.  A value (Box<[u8]>) is represented by its length: the      *)
(* trace codec produces zero-filled buffers, and the collector only ever    *)
(* reads value.len().                                                       *)
(***************************************************************************)
EXTENDS Integers, Sequences, FiniteSets, TLC

\* ------------------------------------------------------------------ bounds
MaxClients == 2          \* --clients ranges over 1..MaxClients
MaxTrace == 3            \* a trace file holds 0..MaxTrace records
PING_TEST_COUNT == 3     \* main.rs:31 is 1_000_000; scaled down

\* ------------------------------------------------------------- input sets
Timestamps == {0, 100, 250}
Commands == {"Get", "Set"}
RpcTimes == {1}
max_wait == 5000

None == <<>>
Some(x) == <<x>>

\* The payload of the k-th record of a trace: numeric key k - 1, and a
\* value length and ttl that differ from record to record.
KeyOf(k) == k - 1
ValueLenOf(k) == k + 1
TtlOf(k) == IF k % 2 = 1 THEN Some(5) ELSE None

Access(ts, cmd, k) ==
    [timestamp |-> ts, command |-> cmd, key |-> KeyOf(k),
     value |-> ValueLenOf(k), ttl |-> TtlOf(k)]

\* The trace files whose timestamps are one of the sequences tsseqs[len].
TracesOver(tsseqs) ==
    UNION {
        { [k \in 1..len |-> Access(tss[k], cmds[k], k)] :
            tss \in tsseqs[len], cmds \in [1..len -> Commands] } :
        len \in 0..MaxTrace }

\* Every sequence of timestamps, sorted or not.
AnyTimestamps == [len \in 0..MaxTrace |-> [1..len -> Timestamps]]
\* One increasing and one decreasing sequence of timestamps.
Rising(len) == [k \in 1..len |-> 100 * (k - 1)]
Falling(len) == [k \in 1..len |-> 100 * (len - k)]
MonotoneTimestamps == [len \in 0..MaxTrace |-> {Rising(len), Falling(len)}]

\* The trace files of a run: with native time the dispatcher reads the
\* timestamps, so they range over every sequence; without, it ignores them.
Traces(native) ==
    IF native THEN TracesOver(AnyTimestamps) ELSE TracesOver(MonotoneTimestamps)

\* The length of the value the target returns on a hit for a key.
StoredLen(key) == key + 4

\* ------------------------------------------------------------------ stats
StatsDefault ==
    [ping_latencies |-> <<>>, get_latencies |-> <<>>, set_latencies |-> <<>>,
     get_total_size |-> 0, set_total_size |-> 0]

store_ping_time(s, instant, elapsed) ==
    [s EXCEPT !.ping_latencies = Append(@, <<instant, elapsed>>)]

\* Mutant: the sample is not pushed.
store_get_time_dropped(s, instant, elapsed) == s

\* Mutant: the sample is pushed twice.
store_get_time_twice(s, instant, elapsed) ==
    [s EXCEPT !.get_latencies = @ \o <<<<instant, elapsed>>, <<instant, elapsed>>>>]

store_get_time(s, instant, elapsed) ==
    [s EXCEPT !.get_latencies = Append(@, <<instant, elapsed>>)]

store_get_size(s, size) ==
    [s EXCEPT !.get_total_size = @ + size]

\* Mutant: the sample of a set is pushed to the get latencies.
store_set_time_as_get(s, instant, elapsed) ==
    [s EXCEPT !.get_latencies = Append(@, <<instant, elapsed>>)]

store_set_time(s, instant, elapsed) ==
    [s EXCEPT !.set_latencies = Append(@, <<instant, elapsed>>)]

store_set_size(s, size) ==
    [s EXCEPT !.set_total_size = @ + size]

\* Insert one point into a sequence sorted by instant, after the points with
\* the same instant.
RECURSIVE InsertSorted(_, _)
InsertSorted(p, s) ==
    IF s = <<>> THEN <<p>>
    ELSE IF p[1] < Head(s)[1] THEN <<p>> \o s
    ELSE <<Head(s)>> \o InsertSorted(p, Tail(s))

RECURSIVE SortByInstant(_)
SortByInstant(s) ==
    IF s = <<>> THEN <<>>
    ELSE InsertSorted(s[Len(s)], SortByInstant(SubSeq(s, 1, Len(s) - 1)))

\* The rearrangements of a sequence.
Rearranged(s) ==
    { [i \in 1..Len(s) |-> s[p[i]]] : p \in Permutations(1..Len(s)) }

\* sort_unstable_by_key(|(instant, _)| *instant): sorted by instant, the points
\* with equal instants in any order (the sort of every rearrangement).
sort_unstable_by_key(times) == { SortByInstant(r) : r \in Rearranged(times) }

\* Mutant: the second slice is not appended.
merge_times_dropping(times_a, times_b) == sort_unstable_by_key(times_a)

\* Mutant: the concatenation is not sorted.
merge_times_unsorted(times_a, times_b) == { times_a \o times_b }

\* The vectors merge_times can return.
merge_times(times_a, times_b) == sort_unstable_by_key(times_a \o times_b)

\* The collectors `self += rhs` can leave in self.
add_assign(self, rhs) ==
    [ping_latencies : merge_times(self.ping_latencies, rhs.ping_latencies),
     get_latencies : merge_times(self.get_latencies, rhs.get_latencies),
     set_latencies : merge_times(self.set_latencies, rhs.set_latencies),
     get_total_size : {self.get_total_size + rhs.get_total_size},
     set_total_size : {self.set_total_size + rhs.set_total_size}]

\* ------------------------------------------------------- target service
\* What one RPC can answer.  "miss" is PaperClientError::CacheError, "error"
\* any other PaperClientError; "hit_not_str" is a hit whose value does not
\* convert to &str.
GetOutcomes == {"hit", "hit_not_str", "miss", "error"}
SetOutcomes == {"ok", "error"}
PingOutcomes == {"ok", "error"}

\* An RPC as issued, with the answer of the target.
PingCall(answer) == <<"ping", answer>>
GetCall(key, answer) == <<"get", key, answer>>
SetCall(key, value, ttl, answer) == <<"set", key, value, ttl, answer>>

\* ----------------------------------------------------------------- worker
\* A handler's result: the collector, the RPCs issued and the error returned
\* (None for Ok(())).
Handled(s, calls, err) == [stats |-> s, calls |-> calls, err |-> err]

handle_ping(s, t, ping, d) ==
    IF ping = "ok"
    THEN Handled(store_ping_time(s, t, d), <<PingCall(ping)>>, None)
    ELSE Handled(s, <<PingCall(ping)>>, Some("Rpc"))

handle_lookaside(s, access, t, get, set, d) ==
    IF access.command = "Get"
    THEN CASE get = "hit" ->
                Handled(store_get_size(store_get_time(s, t, d), StoredLen(access.key)),
                        <<GetCall(access.key, get)>>, None)
           [] get = "hit_not_str" ->
                Handled(store_get_time(s, t, d),
                        <<GetCall(access.key, get)>>, Some("Internal"))
           [] get = "error" ->
                Handled(s, <<GetCall(access.key, get)>>, Some("Rpc"))
           [] get = "miss" ->
                Handled(store_get_time(s, t, d), <<GetCall(access.key, get)>>, None)
    ELSE IF set = "ok"
         THEN Handled(store_set_size(store_set_time(s, t, d), access.value),
                      <<SetCall(access.key, access.value, access.ttl, set)>>, None)
         ELSE Handled(s, <<SetCall(access.key, access.value, access.ttl, set)>>,
                      Some("Rpc"))

handle_read_through(s, access, t, get, set, d) ==
    IF access.command # "Get"
    THEN Handled(s, <<>>, None)
    ELSE CASE get = "hit" ->
                Handled(store_get_size(store_get_time(s, t, d), StoredLen(access.key)),
                        <<GetCall(access.key, get)>>, None)
           [] get = "hit_not_str" ->
                Handled(store_get_time(s, t, d),
                        <<GetCall(access.key, get)>>, Some("Internal"))
           [] get = "error" ->
                Handled(s, <<GetCall(access.key, get)>>, Some("Rpc"))
           [] get = "miss" ->
                IF set = "ok"
                THEN Handled(store_set_size(store_set_time(s, t, d), access.value),
                             <<GetCall(access.key, get),
                               SetCall(access.key, access.value, access.ttl, set)>>,
                             None)
                ELSE Handled(s, <<GetCall(access.key, get),
                                  SetCall(access.key, access.value, access.ttl, set)>>,
                             Some("Rpc"))

handle_access(type, s, access, t, get, set, d) ==
    IF type = "Lookaside"
    THEN handle_lookaside(s, access, t, get, set, d)
    ELSE handle_read_through(s, access, t, get, set, d)

handle_event(type, s, event, t, ping, get, set, d) ==
    IF event.kind = "Ping"
    THEN handle_ping(s, t, ping, d)
    ELSE handle_access(type, s, event.access, t, get, set, d)

\* Mutant: the error of a handler is dropped and the loop goes on.
after_handle_swallowed(err) == "recv"

\* What run() does with the result of a handler (the ? operator), and with a
\* failed recv_timeout (the while-let ends: Ok(self.stats.clone())).
after_handle(err) == IF err = None THEN "recv" ELSE "err"
after_recv_err(why) == "ok"

\* ------------------------------------------------------------------ state
VARIABLES
    clients,                \* args.clients
    native_time,            \* args.native_time
    trace_path,             \* args.trace_path: None, or Some(records of the file)
    client_type,            \* BenchmarkClient.client_type of every worker
    dpc,                    \* where main is
    idx,                    \* pings sent / trace records sent
    prev_access_timestamp,  \* main.rs:123
    pending,                \* the event main is about to send
    sender,                 \* TRUE until drop(sender)
    chan,                   \* the bounded channel's buffer
    now,                    \* wall clock, ms
    wpc,                    \* where each worker thread is
    cur,                    \* the event a worker is handling
    wstats,                 \* BenchmarkClient.stats of each worker
    werr,                   \* the error run() returned, if any
    joined,                 \* tasks joined so far
    stats,                  \* main's aggregate
    panic,                  \* the message main panicked with, if any
    sent,                   \* history: the events put on the channel, in order
    send_times,             \* history: the clock at each send
    slept,                  \* history: the pacing sleeps done, in order
    executed,               \* history: event id -> the workers that handled it, in order
    rpcs,                   \* history: the RPCs each worker issued, in order
    timed_out,              \* history: the workers whose recv_timeout timed out
    args,                   \* the arguments of a function applied on its own
    results                 \* what the functions applied to args returned

vars ==
    <<clients, native_time, trace_path, client_type, dpc, idx,
      prev_access_timestamp, pending, sender, chan, now, wpc, cur, wstats, werr,
      joined, stats, panic, sent, send_times, slept, executed, rpcs, timed_out,
      args, results>>

config == <<clients, native_time, trace_path, client_type>>
dispatcher == <<dpc, idx, prev_access_timestamp, pending, sender, joined, stats, panic>>
workers == <<wpc, cur, wstats, werr, executed, rpcs, timed_out>>
pacing == <<send_times, slept>>
pure == <<args, results>>

Workers == 1..clients
File == trace_path[1]
NumEvents == IF trace_path = None THEN PING_TEST_COUNT ELSE Len(File)

Running(w) == wpc[w] \in {"recv", "handle"}
\* Mutant: join returns without waiting for the thread.
Exited_nowait(w) == wpc[w] \in {"ok", "err", "recv", "handle"}

Exited(w) == wpc[w] \in {"ok", "err"}

\* Receiver handles alive: main's own (main.rs:69, never dropped before main
\* ends) and the clone each running worker owns.
Receivers == 1 + Cardinality({w \in Workers : Running(w)})

PingEvent(id) == [id |-> id, kind |-> "Ping", access |-> None]
AccessEvent(id, access) == [id |-> id, kind |-> "Access", access |-> access]

InitWith(type) ==
    /\ clients \in 1..MaxClients
    /\ native_time \in BOOLEAN
    /\ trace_path \in {None} \cup {Some(tr) : tr \in Traces(native_time)}
    /\ client_type = type
    /\ dpc = "start"
    /\ idx = 0
    /\ prev_access_timestamp = None
    /\ pending = None
    /\ sender = TRUE
    /\ chan = <<>>
    /\ now = 0
    /\ wpc = [w \in Workers |-> "recv"]
    /\ cur = [w \in Workers |-> None]
    /\ wstats = [w \in Workers |-> StatsDefault]
    /\ werr = [w \in Workers |-> None]
    /\ joined = 0
    /\ stats = StatsDefault
    /\ panic = None
    /\ sent = <<>>
    /\ send_times = <<>>
    /\ slept = <<>>
    /\ executed = [id \in 1..NumEvents |-> <<>>]
    /\ rpcs = [w \in Workers |-> <<>>]
    /\ timed_out = {}
    /\ args = <<>>
    /\ results = <<>>

Init == InitWith("Lookaside")

\* ------------------------------------------------------------- dispatcher
\* get_trace_timespan: the first and the last record of the file.
get_trace_timespan(file) ==
    IF file = <<>> THEN [err |-> Some("Invalid trace path.")]
    ELSE IF file[Len(file)].timestamp < file[1].timestamp
    THEN [err |-> Some("Invalid timestamp order.")]
    ELSE [err |-> None]

\* Mutant: the comparison is the wrong way round.
order_violation_reversed(prev_timestamp, timestamp) == prev_timestamp < timestamp

\* Mutant: the sleep is taken from the wrong difference.
sleep_duration_reversed(prev_timestamp, timestamp) == prev_timestamp - timestamp

order_violation(prev_timestamp, timestamp) == prev_timestamp > timestamp
sleep_duration(prev_timestamp, timestamp) == timestamp - prev_timestamp
unwrap_or(option, default) == IF option = None THEN default ELSE option[1]
\* Mutant: the record keeps the ttl it was decoded with.
clear_ttl_kept(access) == access

\* main.rs:138: access.ttl = None
clear_ttl(access) == [access EXCEPT !.ttl = None]

\* Mutant: the buffer takes one message more than its capacity.
CanSend_one_more == Len(chan) <= clients

\* crossbeam's bounded(cap): send blocks while the buffer holds cap messages
\* and fails once no receiver is left.
CanSend == Len(chan) < clients
\* Mutant: the message is read but left in the buffer.
recv_peek(buffer) == [event |-> Head(buffer), rest |-> buffer]

recv(buffer) == [event |-> Head(buffer), rest |-> Tail(buffer)]

Panic(msg) ==
    /\ dpc' = "panicked"
    /\ panic' = Some(msg)

\* Mutant: the ping loop runs whether or not a trace was given.
is_none_always(option) == TRUE

\* main.rs:88: args.trace_path.is_none()
is_none(option) == option = None

\* main.rs:88-111: which loop runs, and the check of the trace's timespan.
Start ==
    /\ UNCHANGED pure
    /\ dpc = "start"
    /\ IF is_none(trace_path)
       THEN dpc' = "ping" /\ panic' = panic
       ELSE IF native_time /\ get_trace_timespan(File).err # None
       THEN Panic(get_trace_timespan(File).err[1])
       ELSE dpc' = "iter" /\ panic' = panic
    /\ UNCHANGED <<config, idx, prev_access_timestamp, pending, sender, joined,
                   stats, chan, now, workers, sent, pacing>>

\* sender.send(event).expect(..): main.rs:97 and main.rs:141.
Send(event) ==
    IF Receivers = 0
    THEN /\ Panic("Could not send to client.")
         /\ UNCHANGED <<chan, idx, sent, send_times>>
    ELSE /\ CanSend
         /\ chan' = Append(chan, event)
         /\ idx' = idx + 1
         /\ sent' = Append(sent, event)
         /\ send_times' = Append(send_times, now)
         /\ UNCHANGED panic

\* main.rs:96-101
SendPing ==
    /\ UNCHANGED pure
    /\ dpc = "ping"
    /\ idx < PING_TEST_COUNT
    /\ Send(PingEvent(idx + 1))
    /\ IF Receivers = 0 THEN TRUE ELSE dpc' = dpc
    /\ UNCHANGED <<config, prev_access_timestamp, pending, sender, joined, stats,
                   now, workers, slept>>

\* main.rs:125-139: the next record of the file, checked and paced (native
\* time) or stripped of its ttl.
NextAccess ==
    /\ UNCHANGED pure
    /\ dpc = "iter"
    /\ idx < Len(File)
    /\ LET access == File[idx + 1]
           prev_timestamp == unwrap_or(prev_access_timestamp, access.timestamp)
       IN IF native_time
          THEN IF order_violation(prev_timestamp, access.timestamp)
               THEN /\ Panic("Invalid timestamp order.")
                    /\ UNCHANGED <<now, slept, prev_access_timestamp, pending>>
               ELSE /\ now' = now + sleep_duration(prev_timestamp, access.timestamp)
                    /\ slept' = Append(slept, sleep_duration(prev_timestamp, access.timestamp))
                    /\ prev_access_timestamp' = Some(access.timestamp)
                    /\ pending' = Some(AccessEvent(idx + 1, access))
                    /\ dpc' = "send"
                    /\ UNCHANGED panic
          ELSE /\ pending' = Some(AccessEvent(idx + 1, clear_ttl(access)))
               /\ dpc' = "send"
               /\ UNCHANGED <<now, slept, prev_access_timestamp, panic>>
    /\ UNCHANGED <<config, idx, sender, joined, stats, chan, workers, sent, send_times>>

\* main.rs:141-144
SendAccess ==
    /\ UNCHANGED pure
    /\ dpc = "send"
    /\ Send(pending[1])
    /\ IF Receivers = 0 THEN pending' = pending ELSE dpc' = "iter" /\ pending' = None
    /\ UNCHANGED <<config, prev_access_timestamp, sender, joined, stats, now,
                   workers, slept>>

\* main.rs:148
DropSender ==
    /\ UNCHANGED pure
    /\ \/ dpc = "ping" /\ idx = PING_TEST_COUNT
       \/ dpc = "iter" /\ idx = Len(File)
    /\ sender' = FALSE
    /\ dpc' = "join"
    /\ UNCHANGED <<config, idx, prev_access_timestamp, pending, joined, stats, panic,
                   chan, now, workers, sent, pacing>>

\* main.rs:152-157: join the next task, in spawn order.
Join ==
    /\ UNCHANGED pure
    /\ dpc = "join"
    /\ joined < clients
    /\ Exited(joined + 1)
    /\ IF werr[joined + 1] = None
       THEN /\ stats' \in add_assign(stats, wstats[joined + 1])
            /\ joined' = joined + 1
            /\ UNCHANGED <<dpc, panic>>
       ELSE /\ Panic("Error executing client requests")
            /\ UNCHANGED <<stats, joined>>
    /\ UNCHANGED <<config, idx, prev_access_timestamp, pending, sender, chan, now,
                   workers, sent, pacing>>

\* main.rs:159-179: the tables, the CSV and the plot.
Report ==
    /\ UNCHANGED pure
    /\ dpc = "join"
    /\ joined = clients
    /\ dpc' = "reported"
    /\ UNCHANGED <<config, idx, prev_access_timestamp, pending, sender, joined, stats,
                   panic, chan, now, workers, sent, pacing>>

\* ----------------------------------------------------------------- workers
\* A thread runs until main ends the process.
Alive == dpc \notin {"panicked", "reported"}

\* client.rs:76: recv_timeout returns Ok(event)
Recv(w) ==
    /\ UNCHANGED pure
    /\ Alive
    /\ wpc[w] = "recv"
    /\ chan # <<>>
    /\ cur' = [cur EXCEPT ![w] = Some(recv(chan).event)]
    /\ chan' = recv(chan).rest
    /\ wpc' = [wpc EXCEPT ![w] = "handle"]
    /\ UNCHANGED <<config, dispatcher, now, wstats, werr, executed, rpcs, timed_out,
                   sent, pacing>>

\* client.rs:77-80: the handler of the event, with the answers of the target.
Handle(w) ==
    /\ UNCHANGED pure
    /\ Alive
    /\ wpc[w] = "handle"
    /\ \E ping \in PingOutcomes, get \in GetOutcomes, set \in SetOutcomes, d \in RpcTimes :
         LET r == handle_event(client_type, wstats[w], cur[w][1], now, ping, get, set, d)
         IN /\ wstats' = [wstats EXCEPT ![w] = r.stats]
            /\ rpcs' = [rpcs EXCEPT ![w] = @ \o r.calls]
            /\ werr' = [werr EXCEPT ![w] = r.err]
            /\ wpc' = [wpc EXCEPT ![w] = after_handle(r.err)]
    /\ executed' = [executed EXCEPT ![cur[w][1].id] = Append(@, w)]
    /\ cur' = [cur EXCEPT ![w] = None]
    /\ UNCHANGED <<config, dispatcher, chan, now, timed_out, sent, pacing>>

\* client.rs:76: recv_timeout returns Err(Timeout) after max_wait
Timeout(w) ==
    /\ UNCHANGED pure
    /\ Alive
    /\ wpc[w] = "recv"
    /\ chan = <<>>
    /\ sender
    /\ wpc' = [wpc EXCEPT ![w] = after_recv_err("Timeout")]
    /\ timed_out' = timed_out \cup {w}
    /\ now' = now + max_wait
    /\ UNCHANGED <<config, dispatcher, chan, cur, wstats, werr, executed, rpcs,
                   sent, pacing>>

\* client.rs:76: recv_timeout returns Err(Disconnected)
Disconnected(w) ==
    /\ UNCHANGED pure
    /\ Alive
    /\ wpc[w] = "recv"
    /\ chan = <<>>
    /\ ~sender
    /\ wpc' = [wpc EXCEPT ![w] = after_recv_err("Disconnected")]
    /\ UNCHANGED <<config, dispatcher, chan, now, cur, wstats, werr, executed, rpcs,
                   timed_out, sent, pacing>>

Next ==
    \/ Start
    \/ SendPing
    \/ NextAccess
    \/ SendAccess
    \/ DropSender
    \/ Join
    \/ Report
    \/ \E w \in Workers : Recv(w)
    \/ \E w \in Workers : Handle(w)
    \/ \E w \in Workers : Timeout(w)
    \/ \E w \in Workers : Disconnected(w)

Spec == Init /\ [][Next]_vars

\* The same program with every worker built by with_client_type(ReadThrough).
InitReadThrough == InitWith("ReadThrough")
SpecReadThrough == InitReadThrough /\ [][Next]_vars

\* ------------------------------------------------------- claim vocabulary
AllExited == \A w \in Workers : Exited(w)
WantsToSend == (dpc = "ping" /\ idx < PING_TEST_COUNT) \/ dpc = "send"
Times(id) == Len(executed[id])
HandledBy(w) == {id \in DOMAIN executed : \E k \in 1..Len(executed[id]) : executed[id][k] = w}
BothWorked == \A w \in Workers : \E id \in DOMAIN executed : executed[id] = <<w>>
num_gets == Len(stats.get_latencies)
num_sets == Len(stats.set_latencies)

\* C1: every event sent on the channel is handled by at most one worker,
\* never by two; and in a run that is reported (no worker failed) in which no
\* worker left early on an idle timeout, it is handled by exactly one.
C1_SingleConsumer ==
    /\ \A id \in DOMAIN executed : Times(id) <= 1
    /\ \A id \in DOMAIN executed : Times(id) = 1 => id <= Len(sent)
    /\ (dpc = "reported" /\ timed_out = {}) =>
          /\ Len(sent) = NumEvents
          /\ \A id \in 1..Len(sent) : Times(id) = 1

C1_Witness ==
    /\ dpc = "reported"
    /\ timed_out = {}
    /\ clients = 2
    /\ Len(sent) >= 2
    /\ BothWorked

\* C2: once every worker has exited (here: none of them on an idle timeout),
\* a send of the dispatcher does not block: it fails and main panics, so the
\* dispatcher is never stuck on a full channel that no worker will drain.
C2_SendFailsWithoutWorkers ==
    (AllExited /\ timed_out = {} /\ WantsToSend) => ENABLED (SendPing \/ SendAccess)

\* C3: lookaside, no native time, a trace of K records: a reported run
\* (no RPC failed with a non-miss error) holds num_gets + num_sets = K.
C3_AllRecordsCounted ==
    (/\ client_type = "Lookaside"
     /\ trace_path # None
     /\ ~native_time
     /\ dpc = "reported") => num_gets + num_sets = Len(File)

\* C4: a worker that returned normally did so because the channel was
\* closed, after the events on it were drained.
C4_OnlyCloseStopsWorker ==
    \A w \in Workers : wpc[w] = "ok" => (~sender /\ chan = <<>>)

\* C5: a worker whose receive timed out while the channel was open returned
\* an error.
C5_TimeoutIsFatal ==
    \A w \in timed_out : wpc[w] = "err"

\* The step in which worker w runs the handler of its event, and the RPCs
\* that step issues.
Handles(w) == wpc[w] = "handle" /\ wpc'[w] # "handle"
NewCalls(w) == SubSeq(rpcs'[w], Len(rpcs[w]) + 1, Len(rpcs'[w]))
Answer(call) == call[Len(call)]
HandlesAccess(w, command) ==
    /\ Handles(w)
    /\ cur[w][1].kind = "Access"
    /\ cur[w][1].access.command = command
GrowsBy(old, new, instant) ==
    \E d \in RpcTimes : new = Append(old, <<instant, d>>)

\* C6: lookaside: a GET answered with a cache miss adds one sample to the get
\* latencies, leaves the get size total (and everything else of the
\* collector) as it was, returns no error, and the worker is back at the
\* receive of the next event.
C6_LookasideMissIsData ==
    [][\A w \in Workers :
         (/\ client_type = "Lookaside"
          /\ HandlesAccess(w, "Get")
          /\ Answer(NewCalls(w)[1]) = "miss") =>
            /\ GrowsBy(wstats[w].get_latencies, wstats'[w].get_latencies, now)
            /\ wstats'[w] = [wstats[w] EXCEPT !.get_latencies = wstats'[w].get_latencies]
            /\ werr'[w] = None
            /\ wpc'[w] = "recv"
            /\ Len(NewCalls(w)) = 1]_vars

\* A worker handled a GET that missed and then went on to handle another event.
C6_Witness ==
    /\ client_type = "Lookaside"
    /\ \E w \in Workers :
         /\ Len(rpcs[w]) >= 2
         /\ rpcs[w][1][1] = "get"
         /\ Answer(rpcs[w][1]) = "miss"
         /\ Len(wstats[w].get_latencies) >= 1
         /\ wstats[w].get_total_size = 0

ReadThroughSetAndMiss(w) ==
    /\ HandlesAccess(w, "Set") =>
          /\ NewCalls(w) = <<>>
          /\ wstats'[w] = wstats[w]
    /\ (HandlesAccess(w, "Get") /\ Answer(NewCalls(w)[1]) = "miss") =>
          LET a == cur[w][1].access
              calls == NewCalls(w)
          IN /\ Len(calls) = 2
             /\ calls[1] = GetCall(a.key, "miss")
             /\ \E ans \in SetOutcomes : calls[2] = SetCall(a.key, a.value, a.ttl, ans)
             /\ wstats'[w].get_latencies = wstats[w].get_latencies
             /\ wstats'[w].get_total_size = wstats[w].get_total_size
             /\ Answer(calls[2]) = "ok" =>
                   /\ GrowsBy(wstats[w].set_latencies, wstats'[w].set_latencies, now)
                   /\ wstats'[w].set_total_size = wstats[w].set_total_size + a.value

IsHit(answer) == answer \in {"hit", "hit_not_str"}

FatalErrorStopsWorker ==
    /\ [][\A w \in Workers :
            /\ (Handles(w) /\ NewCalls(w) # <<>>
                  /\ Answer(NewCalls(w)[Len(NewCalls(w))]) = "error") =>
                  (wpc'[w] = "err" /\ werr'[w] = Some("Rpc"))
            /\ wpc[w] = "err" =>
                  /\ wpc'[w] = "err"
                  /\ werr'[w] = werr[w]
                  /\ rpcs'[w] = rpcs[w]
                  /\ wstats'[w] = wstats[w]
                  /\ HandledBy(w)' = HandledBy(w)]_vars
    /\ []((\E w \in Workers : wpc[w] = "err") => dpc # "reported")

\* C8: a fatal RPC error makes the worker return it, and a run in which a
\* worker has returned an error is aborted, without statistics: when such a
\* run can take no further step, main has panicked.
C8_ErrorEndsInAbort ==
    ((\E w \in Workers : wpc[w] = "err" /\ werr[w] = Some("Rpc")) /\ ~ENABLED Next) =>
        dpc = "panicked"

FileTimestamp(k) == File[k].timestamp
SentTimestamp(k) == sent[k].access.timestamp

\* C9: native time: the timestamps of the records sent never decrease, and
\* when record k + 1 of the file is older than record k, at most k records
\* are ever sent.
C9_OrderCheckedBeforeSend ==
    (native_time /\ trace_path # None) =>
        /\ \A j, k \in 1..Len(sent) : j <= k => SentTimestamp(j) <= SentTimestamp(k)
        /\ \A k \in 1..(Len(File) - 1) :
              FileTimestamp(k + 1) < FileTimestamp(k) => Len(sent) <= k

\* The loop met a record older than the one sent before it, and main panicked.
C9_Witness ==
    /\ native_time
    /\ trace_path # None
    /\ Len(sent) >= 1
    /\ Len(File) > Len(sent)
    /\ FileTimestamp(Len(sent) + 1) < FileTimestamp(Len(sent))
    /\ panic = Some("Invalid timestamp order.")

\* C10: native time: the sleep before the first record is zero and the sleep
\* before record k + 1 is timestamp[k + 1] - timestamp[k]; the clock
\* between two consecutive sends advances by at least that difference.
C10_PacingKeepsSpacing ==
    (native_time /\ trace_path # None) =>
        /\ Len(slept) >= Len(sent)
        /\ \A k \in 1..Len(slept) :
              slept[k] = IF k = 1 THEN 0 ELSE FileTimestamp(k) - FileTimestamp(k - 1)
        /\ \A k \in 2..Len(sent) :
              send_times[k] - send_times[k - 1] >= SentTimestamp(k) - SentTimestamp(k - 1)

\* The trace 0, 100, 250 was sent in full.
C10_Witness ==
    /\ native_time
    /\ trace_path # None
    /\ Len(sent) = 3
    /\ SentTimestamp(1) = 0
    /\ SentTimestamp(2) = 100
    /\ SentTimestamp(3) = 250
    /\ send_times[2] - send_times[1] >= 100
    /\ send_times[3] - send_times[2] >= 150

\* ------------------------------------------------ functions on their own
\* The state of the program while a function is applied on its own: no run.
NoRun ==
    /\ clients = 1
    /\ native_time = FALSE
    /\ trace_path = None
    /\ client_type = "Lookaside"
    /\ dpc = "reported"
    /\ idx = 0
    /\ prev_access_timestamp = None
    /\ pending = None
    /\ sender = FALSE
    /\ chan = <<>>
    /\ now = 0
    /\ wpc = [w \in Workers |-> "ok"]
    /\ cur = [w \in Workers |-> None]
    /\ wstats = [w \in Workers |-> StatsDefault]
    /\ werr = [w \in Workers |-> None]
    /\ joined = 1
    /\ stats = StatsDefault
    /\ panic = None
    /\ sent = <<>>
    /\ send_times = <<>>
    /\ slept = <<>>
    /\ executed = <<>>
    /\ rpcs = [w \in Workers |-> <<>>]
    /\ timed_out = {}

program ==
    <<config, dispatcher, workers, chan, now, sent, pacing>>

\* A function is applied once: its result is stored under its name.
Applied(name) == name \in DOMAIN results
Returns(name, value) ==
    /\ ~Applied(name)
    /\ results' = results @@ (name :> value)
    /\ UNCHANGED <<args, program>>

\* ------------------------------------------------------------ Stats: merge
MaxSamples == 1          \* samples of the first collector that is merged

Kinds == {"ping_latencies", "get_latencies", "set_latencies"}
Instants == {0, 1, 2}
Points == Instants \X {1, 2}
IsSortedByInstant(times) ==
    \A i \in 1..(Len(times) - 1) : times[i][1] <= times[i + 1][1]

\* What a worker's pushes leave in one vector: Instant::now() never goes
\* back, so the points are in the order of their instants.
Pushed(n) == {s \in [1..n -> Points] : IsSortedByInstant(s)}

\* What a worker can have pushed to one vector, up to max points.
VectorsOf(max) == UNION {Pushed(n) : n \in 0..max}

\* The collectors of at most max samples, with 3 bytes read by each get and
\* 5 bytes written by each set.
CollectorsOf(max) ==
    { [ping_latencies |-> c[1], get_latencies |-> c[2], set_latencies |-> c[3],
       get_total_size |-> 3 * Len(c[2]), set_total_size |-> 5 * Len(c[3])] :
        c \in { t \in VectorsOf(max) \X VectorsOf(max) \X VectorsOf(max) :
                    Len(t[1]) + Len(t[2]) + Len(t[3]) <= max } }

InitMerge ==
    /\ NoRun
    /\ args \in [A : CollectorsOf(MaxSamples), B : CollectorsOf(1), C : CollectorsOf(1)]
    /\ results = <<>>

\* A += B and B += A
MergeTwo ==
    \E ab \in add_assign(args.A, args.B), ba \in add_assign(args.B, args.A) :
        Returns("two", [AB |-> ab, BA |-> ba])

\* (A += B) += C and A += (B += C)
MergeThree ==
    /\ Applied("two")
    /\ \E ab_c \in add_assign(results.two.AB, args.C), bc \in add_assign(args.B, args.C) :
         \E a_bc \in add_assign(args.A, bc) :
            Returns("three", [AB_C |-> ab_c, A_BC |-> a_bc])

\* A += Stats::default() and Stats::default() += A
MergeDefault ==
    \E a0 \in add_assign(args.A, StatsDefault), e0 \in add_assign(StatsDefault, args.A) :
        Returns("default", [A_0 |-> a0, O_A |-> e0])

NextMerge == MergeTwo \/ MergeThree \/ MergeDefault

SpecMerge == InitMerge /\ [][NextMerge]_vars

\* The points of a vector as a multiset.
BagOf(times) ==
    [p \in {times[i] : i \in DOMAIN times} |->
        Cardinality({i \in DOMAIN times : times[i] = p})]

SameCollector(x, y) ==
    /\ \A kind \in Kinds : BagOf(x[kind]) = BagOf(y[kind])
    /\ x.get_total_size = y.get_total_size
    /\ x.set_total_size = y.set_total_size

\* C11: merging collectors is a commutative monoid, collectors being compared
\* as multisets of points per kind and in both size totals: A + B equals
\* B + A, (A + B) + C equals A + (B + C), and A + empty and empty + A equal A.
C11_MergeIsCommutativeMonoid ==
    /\ Applied("two") => SameCollector(results.two.AB, results.two.BA)
    /\ Applied("three") => SameCollector(results.three.AB_C, results.three.A_BC)
    /\ Applied("default") =>
          /\ SameCollector(results.default.A_0, args.A)
          /\ SameCollector(results.default.O_A, args.A)

\* Three collectors with one get sample each, two of them at the same instant
\* with different latencies, were merged in both groupings.
C11_Witness ==
    /\ Applied("two") /\ Applied("three") /\ Applied("default")
    /\ Len(results.three.AB_C.get_latencies) = 3
    /\ args.A.get_latencies = <<<<1, 1>>>>
    /\ args.B.get_latencies = <<<<1, 2>>>>
    /\ args.C.get_latencies = <<<<0, 1>>>>
    /\ results.three.AB_C.get_total_size = 9

\* The collectors the merges returned.
Merged ==
    UNION { {results[n][f] : f \in DOMAIN results[n]} : n \in DOMAIN results }

First(times) == times[1]
Last(times) == times[Len(times)]

\* C18: after any sequence of merges, each kind's vector of the result is in
\* the order of the start instants (non-decreasing), whatever the order in
\* which the collectors were merged; so its first and its last element carry
\* the least and the greatest start instant of that kind.
C18_MergedIsSortedByInstant ==
    \A c \in Merged : \A kind \in Kinds :
        /\ IsSortedByInstant(c[kind])
        /\ \A i \in DOMAIN c[kind] :
              /\ First(c[kind])[1] <= c[kind][i][1]
              /\ c[kind][i][1] <= Last(c[kind])[1]

\* A, B and C came with the instants 2, 0 and 1: both groupings had to
\* reorder them.
C18_Witness ==
    /\ Applied("two") /\ Applied("three")
    /\ args.A.set_latencies = <<<<2, 1>>>>
    /\ args.B.set_latencies = <<<<0, 1>>>>
    /\ args.C.set_latencies = <<<<1, 2>>>>
    /\ results.two.AB.set_latencies = <<<<0, 1>>, <<2, 1>>>>
    /\ results.three.AB_C.set_latencies = <<<<0, 1>>, <<1, 2>>, <<2, 1>>>>
    /\ results.three.A_BC.set_latencies = <<<<0, 1>>, <<1, 2>>, <<2, 1>>>>

\* ------------------------------------------------------ Access: the codec
\* A byte has Radix values (256 in the program); u8, u32 and u64 are 1, 4 and
\* 8 bytes wide, so that u32::MAX is Radix^4 - 1 and u64::MAX is Radix^8 - 1.
\* A String is the sequence of its characters.
Radix == 4
size == 25               \* SizedChunk::size()

Bytes == 0..(Radix - 1)

RECURSIVE Pow(_, _)
Pow(b, n) == IF n = 0 THEN 1 ELSE b * Pow(b, n - 1)

MaxOf(width) == Pow(Radix, width) - 1

to_le_bytes(x, width) ==
    [i \in 1..width |-> (x \div Pow(Radix, i - 1)) % Radix]

RECURSIVE from_le_bytes(_)
from_le_bytes(bytes) ==
    IF bytes = <<>> THEN 0 ELSE Head(bytes) + Radix * from_le_bytes(Tail(bytes))

\* `len as u32`
as_u32(n) == n % Pow(Radix, 4)

Ok(value) == [ok |-> TRUE, value |-> value]
Err(kind, msg) == [ok |-> FALSE, kind |-> kind, msg |-> msg]

Digits == <<"0", "1", "2", "3", "4", "5", "6", "7", "8", "9">>
IsDigit(c) == \E d \in DOMAIN Digits : Digits[d] = c
DigitOf(c) == (CHOOSE d \in DOMAIN Digits : Digits[d] = c) - 1

\* u64::to_string
RECURSIVE to_string(_)
to_string(n) ==
    IF n < 10 THEN <<Digits[n + 1]>>
    ELSE to_string(n \div 10) \o <<Digits[(n % 10) + 1]>>

\* str::parse::<u64>: decimal digits after an optional "+"; no digit, another
\* character or a value above u64::MAX is an error.
RECURSIVE parse_digits(_, _)
parse_digits(s, acc) ==
    IF s = <<>> THEN Ok(acc)
    ELSE IF ~IsDigit(Head(s)) THEN Err("ParseIntError", "InvalidDigit")
    ELSE IF acc * 10 + DigitOf(Head(s)) > MaxOf(8)
    THEN Err("ParseIntError", "PosOverflow")
    ELSE parse_digits(Tail(s), acc * 10 + DigitOf(Head(s)))

parse_u64(s) ==
    IF s = <<>> THEN Err("ParseIntError", "Empty")
    ELSE IF Len(s) = 1 /\ Head(s) \in {"+", "-"} THEN Err("ParseIntError", "InvalidDigit")
    ELSE IF Head(s) = "+" THEN parse_digits(Tail(s), 0)
    ELSE parse_digits(s, 0)

\* Mutant: every byte but 0 is a Set.
from_byte_lenient(byte) == IF byte = 0 THEN Ok("Get") ELSE Ok("Set")

from_byte(byte) ==
    CASE byte = 0 -> Ok("Get")
      [] byte = 1 -> Ok("Set")
      [] OTHER -> Err("InvalidData", "Invalid command byte.")

\* Mutant: the bytes of the two commands are swapped.
as_byte_swapped(command) == IF command = "Get" THEN 1 ELSE 0

as_byte(command) == IF command = "Get" THEN 0 ELSE 1

\* Cursor::read_u8 / read_u32 / read_u64: the next width bytes at pos, or an
\* error when fewer are left.
read_uint(buf, pos, width) ==
    IF pos + width <= Len(buf)
    THEN Ok(from_le_bytes(SubSeq(buf, pos + 1, pos + width)))
    ELSE Err("UnexpectedEof", "failed to fill whole buffer")

\* impl ReadChunk for Access: new(buf)
new(buf) ==
    LET timestamp == read_uint(buf, 0, 8)
        byte == read_uint(buf, 8, 1)
        key == read_uint(buf, 9, 8)
        value == read_uint(buf, 17, 4)
        ttl == read_uint(buf, 21, 4)
    IN IF ~timestamp.ok THEN Err("InvalidData", "Invalid access key.")
       ELSE IF ~byte.ok THEN Err("InvalidData", "Invalid access command.")
       ELSE IF ~from_byte(byte.value).ok THEN from_byte(byte.value)
       ELSE IF ~key.ok THEN Err("InvalidData", "Invalid access key.")
       ELSE IF ~value.ok THEN Err("InvalidData", "Invalid access size.")
       ELSE IF ~ttl.ok THEN Err("InvalidData", "Invalid access ttl.")
       ELSE Ok([timestamp |-> timestamp.value,
                command |-> from_byte(byte.value).value,
                key |-> to_string(key.value),
                value |-> value.value,
                ttl |-> IF ttl.value = 0 THEN None ELSE Some(ttl.value)])

\* impl WriteChunk for Access: as_chunk(&self, buf); the result and the
\* buffer it leaves.
as_chunk(self, buf) ==
    LET key == parse_u64(self.key)
        len == as_u32(self.value)
    IN IF ~key.ok
       THEN [result |-> Err("InvalidData", "Invalid access key."), buf |-> buf]
       ELSE [result |-> Ok(<<>>),
             buf |-> buf \o to_le_bytes(self.timestamp, 8)
                         \o to_le_bytes(as_byte(self.command), 1)
                         \o to_le_bytes(key.value, 8)
                         \o to_le_bytes(len, 4)
                         \o to_le_bytes(unwrap_or(self.ttl, 0), 4)]

\* The records given to as_chunk: any key string, ttl Some(0) included, and a
\* value of more than u32::MAX bytes.
KeyStrings ==
    {<<"7">>, <<"0">>, <<"0", "7">>, <<"+", "7">>, <<>>, <<"x">>, <<"-", "1">>,
     <<"7", "x">>, to_string(MaxOf(8)), to_string(MaxOf(8) + 1)}

Records ==
    [timestamp : {0, 42, MaxOf(8)},
     command : Commands,
     key : KeyStrings,
     value : {0, 3, MaxOf(4), MaxOf(4) + 1},
     ttl : {None, Some(0), Some(5), Some(MaxOf(4))}]

\* The buffers given to new: the five fields in their layout, with any
\* command byte, cut to any length up to one byte more than a record.
Layout(timestamp, byte, key, len, ttl) ==
    to_le_bytes(timestamp, 8) \o <<byte>> \o to_le_bytes(key, 8)
        \o to_le_bytes(len, 4) \o to_le_bytes(ttl, 4) \o <<0>>

Buffers ==
    { SubSeq(Layout(ts, byte, key, len, ttl), 1, n) :
        ts \in {0, 42}, byte \in Bytes, key \in {7, MaxOf(8)}, len \in {0, 3},
        ttl \in {0, 5}, n \in 0..(size + 1) }

InitCodec ==
    /\ NoRun
    /\ args \in [access : Records, out : {<<>>, <<1>>}] \cup [buf : Buffers]
    /\ results = <<>>

Encodes == "access" \in DOMAIN args
\* The bytes as_chunk appended to the buffer.
Chunk == SubSeq(results.as_chunk.buf, Len(args.out) + 1, Len(results.as_chunk.buf))

\* access.as_chunk(&mut out)
AsChunk ==
    /\ Encodes
    /\ Returns("as_chunk", as_chunk(args.access, args.out))

\* Access::new(chunk) of the chunk as_chunk wrote
NewOfChunk ==
    /\ Encodes
    /\ Applied("as_chunk")
    /\ results.as_chunk.result.ok
    /\ Returns("new", new(Chunk))

\* Access::new(buf)
New ==
    /\ ~Encodes
    /\ Returns("new", new(args.buf))

NextCodec == AsChunk \/ NewOfChunk \/ New

SpecCodec == InitCodec /\ [][NextCodec]_vars

\* A key in the form to_string gives: digits only, no sign, no leading zero.
Canonical(key) ==
    /\ key # <<>>
    /\ \A i \in DOMAIN key : IsDigit(key[i])
    /\ Len(key) = 1 \/ key[1] # "0"

\* The number a key string denotes: its digits, after an optional "+".
RECURSIVE NumberOf(_)
NumberOf(key) ==
    IF key = <<>> THEN 0
    ELSE IF key[Len(key)] = "+" THEN 0
    ELSE DigitOf(key[Len(key)]) + 10 * NumberOf(SubSeq(key, 1, Len(key) - 1))

Parses(key) ==
    /\ key # <<>>
    /\ key # <<"+">>
    /\ \A i \in DOMAIN key : IsDigit(key[i]) \/ (i = 1 /\ key[i] = "+")
    /\ NumberOf(key) <= MaxOf(8)

\* C12 as stated: for every record whose key parses as a u64, as_chunk
\* appends exactly 25 bytes, and new of these bytes succeeds and returns the
\* record's timestamp, command, key, ttl and value length.
C12_RoundTripAsStated ==
    (Encodes /\ Parses(args.access.key)) =>
        /\ Applied("as_chunk") =>
              /\ results.as_chunk.result.ok
              /\ Len(Chunk) = size
        /\ Applied("new") =>
              /\ results.new.ok
              /\ results.new.value = args.access

\* C12 amended: for every record whose key parses as a u64, as_chunk appends
\* exactly 25 bytes and new of these bytes succeeds and returns the record's
\* timestamp and command; the key comes back as the decimal form, without
\* sign or leading zeros, of the same number, so unchanged when it was in that
\* form; the ttl comes back unchanged unless it was Some(0), which comes back
\* as None; the value length comes back modulo 2^32, so unchanged below 2^32.
C12_RoundTrip ==
    (Encodes /\ Parses(args.access.key)) =>
        /\ Applied("as_chunk") =>
              /\ results.as_chunk.result.ok
              /\ Len(Chunk) = size
              /\ SubSeq(results.as_chunk.buf, 1, Len(args.out)) = args.out
        /\ Applied("new") =>
              /\ results.new.ok
              /\ results.new.value.timestamp = args.access.timestamp
              /\ results.new.value.command = args.access.command
              /\ Canonical(results.new.value.key)
              /\ NumberOf(results.new.value.key) = NumberOf(args.access.key)
              /\ Canonical(args.access.key) => results.new.value.key = args.access.key
              /\ results.new.value.ttl =
                    IF args.access.ttl = Some(0) THEN None ELSE args.access.ttl
              /\ results.new.value.value = args.access.value % (MaxOf(4) + 1)
              /\ args.access.value <= MaxOf(4) =>
                    results.new.value.value = args.access.value

\* The record {timestamp 42, Set, key "7", a value of 3 bytes, ttl Some(5)}
\* was encoded behind a byte already in the buffer and decoded back.
C12_Witness ==
    /\ Encodes
    /\ args.access = [timestamp |-> 42, command |-> "Set", key |-> <<"7">>,
                      value |-> 3, ttl |-> Some(5)]
    /\ args.out = <<1>>
    /\ Applied("new")
    /\ results.new.ok
    /\ results.new.value = args.access
    /\ Len(results.as_chunk.buf) = size + 1

AccessFields == {"timestamp", "command", "key", "value", "ttl"}

\* C13: new fails with an InvalidData error on any buffer whose command byte
\* is neither 0 nor 1 and on any buffer shorter than 25 bytes; whatever the
\* buffer, it returns a record with all five fields or an error and no
\* record; as_chunk of a record whose key is no u64 fails with an InvalidData
\* error and leaves the output buffer as it was.
C13_MalformedIsRejected ==
    /\ (~Encodes /\ Applied("new")) =>
          /\ (Len(args.buf) < size \/ (Len(args.buf) >= 9 /\ args.buf[9] \notin {0, 1})) =>
                (~results.new.ok /\ results.new.kind = "InvalidData")
          /\ IF results.new.ok
             THEN DOMAIN results.new.value = AccessFields
             ELSE "value" \notin DOMAIN results.new
    /\ (Encodes /\ Applied("as_chunk") /\ ~Parses(args.access.key)) =>
          /\ ~results.as_chunk.result.ok
          /\ results.as_chunk.result.kind = "InvalidData"
          /\ results.as_chunk.buf = args.out

\* A buffer of 25 bytes whose command byte is 2 was given to new.
C13_Witness ==
    /\ ~Encodes
    /\ Len(args.buf) = size
    /\ args.buf[9] = 2
    /\ Applied("new")
    /\ ~results.new.ok

\* ---------------------------------------------------------- Stats: report
\* The instants and the durations of the collector reported are in
\* microseconds.
MaxReported == 3         \* samples of the collector that is reported

InitReport ==
    /\ NoRun
    /\ args \in [stats : CollectorsOf(MaxReported)]
    /\ results = <<>>

\* duration.as_micros() as f64 of every point
as_micros(times) == [i \in DOMAIN times |-> times[i][2]]

RECURSIVE sum(_)
sum(durations) ==
    IF durations = <<>> THEN 0 ELSE Head(durations) + sum(Tail(durations))

\* a / b in f64, kept as the quotient it is
Quotient(a, b) == [bytes |-> a, micros |-> b]

\* print_get_stats and print_set_stats after print_stats: nothing for a kind
\* without samples, else the average size and the bandwidth.
print_sizes(times, total_size) ==
    IF times = <<>> THEN None
    ELSE Some([avg_size |-> total_size \div Len(times),
               bandwidth |-> Quotient(total_size, sum(as_micros(times)))])

print_get_stats(self) == print_sizes(self.get_latencies, self.get_total_size)
print_set_stats(self) == print_sizes(self.set_latencies, self.set_total_size)

\* Data::percentile of statrs, left uninterpreted: the value of a cell is
\* the call that computes it.
percentile(data, tau) == [data |-> data, tau |-> tau]

PercentileLatency(p, ping, get, set) ==
    [percentile |-> p, ping_latency |-> ping, get_latency |-> get, set_latency |-> set]

\* Mutant: a kind without samples gets a cell all the same.
as_row_placeholder(self) ==
    <<self.percentile,
      unwrap_or(self.ping_latency, 0),
      unwrap_or(self.get_latency, 0),
      unwrap_or(self.set_latency, 0)>>

\* impl WriteRow for PercentileLatency
as_row(self) ==
    <<self.percentile>>
        \o (IF self.ping_latency # None THEN <<self.ping_latency[1]>> ELSE <<>>)
        \o (IF self.get_latency # None THEN <<self.get_latency[1]>> ELSE <<>>)
        \o (IF self.set_latency # None THEN <<self.set_latency[1]>> ELSE <<>>)

headers(self) ==
    <<"Percentile">>
        \o (IF self.ping_latencies # <<>> THEN <<"Ping">> ELSE <<>>)
        \o (IF self.get_latencies # <<>> THEN <<"Get">> ELSE <<>>)
        \o (IF self.set_latencies # <<>> THEN <<"Set">> ELSE <<>>)

latency(times, p) ==
    IF times # <<>> THEN Some(percentile(as_micros(times), p)) ELSE None

\* save_latency_percentiles: the header row and the rows written.
save_latency_percentiles(self) ==
    [headers |-> headers(self),
     rows |-> [p \in 1..100 |->
                 as_row(PercentileLatency(p,
                            latency(self.ping_latencies, p),
                            latency(self.get_latencies, p),
                            latency(self.set_latencies, p)))]]

\* main.rs:160
PrintGetStats ==
    /\ Returns("print_get_stats", print_get_stats(args.stats))

\* main.rs:161
PrintSetStats ==
    /\ Applied("print_get_stats")
    /\ Returns("print_set_stats", print_set_stats(args.stats))

\* main.rs:167-169
SaveLatencyPercentiles ==
    /\ Applied("print_set_stats")
    /\ Returns("save_latency_percentiles", save_latency_percentiles(args.stats))

NextReport == PrintGetStats \/ PrintSetStats \/ SaveLatencyPercentiles

SpecReport == InitReport /\ [][NextReport]_vars

Span(times) == Last(times)[1] - First(times)[1]

BandwidthOverSpan(name, times, total_size) ==
    (Applied(name) /\ times # <<>> /\ Span(times) > 0) =>
        /\ results[name] # None
        /\ results[name][1].bandwidth = Quotient(total_size, Span(times))

\* C14: the bandwidth reported for get, and for set, is the total of the
\* bytes recorded for the kind over the time between the first and the last
\* start instant recorded for the kind (where these differ), not over the sum
\* of the latencies.
C14_BandwidthOverSpan ==
    /\ BandwidthOverSpan("print_get_stats", args.stats.get_latencies,
                         args.stats.get_total_size)
    /\ BandwidthOverSpan("print_set_stats", args.stats.set_latencies,
                         args.stats.set_total_size)

FieldOf(header) ==
    CASE header = "Ping" -> "ping_latencies"
      [] header = "Get" -> "get_latencies"
      [] header = "Set" -> "set_latencies"

HasSamples(header) == args.stats[FieldOf(header)] # <<>>

\* C15: the export has exactly 100 data rows, row p starting with the
\* percentile p, for p = 1..100 in this order; its header is Percentile
\* followed by those of Ping, Get, Set, in this order, whose kind has a
\* sample; every row has as many cells as the header, the cell under a kind
\* being that kind's percentile p.
C15_PercentileCsvShape ==
    Applied("save_latency_percentiles") =>
        LET csv == results.save_latency_percentiles
        IN /\ csv.headers = <<"Percentile">> \o SelectSeq(<<"Ping", "Get", "Set">>, HasSamples)
           /\ DOMAIN csv.rows = 1..100
           /\ \A p \in 1..100 :
                /\ Len(csv.rows[p]) = Len(csv.headers)
                /\ csv.rows[p][1] = p
                /\ \A j \in 2..Len(csv.headers) :
                     /\ csv.rows[p][j].tau = p
                     /\ csv.rows[p][j].data = as_micros(args.stats[FieldOf(csv.headers[j])])

\* A collector with ping and set samples and no get sample was exported.
C15_Witness ==
    /\ Applied("save_latency_percentiles")
    /\ args.stats.ping_latencies # <<>>
    /\ args.stats.get_latencies = <<>>
    /\ Len(args.stats.set_latencies) = 2
    /\ results.save_latency_percentiles.headers = <<"Percentile", "Ping", "Set">>
    /\ Len(results.save_latency_percentiles.rows[100]) = 3

\* ------------------------------------------------------ claims on the run
IssuesGet(w) ==
    /\ client_type = "Lookaside"
    /\ Handles(w)
    /\ NewCalls(w) # <<>>
    /\ NewCalls(w)[1][1] = "get"

\* C16 as stated: lookaside: every GET RPC a worker issues adds exactly one
\* sample to the get latencies, whatever its outcome (hit, cache miss or any
\* other error).
C16_EveryGetRecordedAsStated ==
    [][\A w \in Workers :
         IssuesGet(w) =>
            GrowsBy(wstats[w].get_latencies, wstats'[w].get_latencies, now)]_vars

\* C16 amended: lookaside: every GET RPC answered with a value or with a
\* cache miss adds exactly one sample to the get latencies; a GET that fails
\* with any other error adds none: the collector stays as it was and the
\* worker returns the error.
C16_EveryAnsweredGetRecorded ==
    [][\A w \in Workers :
         IssuesGet(w) =>
            /\ Len(NewCalls(w)) = 1
            /\ Answer(NewCalls(w)[1]) # "error" =>
                  GrowsBy(wstats[w].get_latencies, wstats'[w].get_latencies, now)
            /\ Answer(NewCalls(w)[1]) = "error" =>
                  /\ wstats'[w] = wstats[w]
                  /\ werr'[w] = Some("Rpc")
                  /\ wpc'[w] = "err"]_vars

\* A worker's GET was answered and recorded, and its next GET failed.
C16_Witness ==
    /\ client_type = "Lookaside"
    /\ \E w \in Workers :
         /\ Len(rpcs[w]) = 2
         /\ rpcs[w][1][1] = "get" /\ Answer(rpcs[w][1]) = "hit"
         /\ rpcs[w][2][1] = "get" /\ Answer(rpcs[w][2]) = "error"
         /\ Len(wstats[w].get_latencies) = 1
         /\ wpc[w] = "err"

Handling == {w \in Workers : wpc[w] = "handle"}
\* The events sent whose handler has not returned yet.
InFlight == {id \in 1..Len(sent) : Times(id) = 0}

\* C17: with N workers the channel never holds more than N events and a send
\* blocks while it holds N; the events sent and not yet executed are those
\* in the channel and the one in the hands of each busy worker, so at most 2N.
C17_Backpressure ==
    /\ Len(chan) <= clients
    /\ (WantsToSend /\ Len(chan) = clients) => ~ENABLED (SendPing \/ SendAccess)
    /\ Cardinality(InFlight) = Len(chan) + Cardinality(Handling)
    /\ Cardinality(InFlight) <= 2 * clients

\* One worker is busy, the channel is full and the dispatcher is blocked in
\* its send: 2N events are in flight.
C17_Witness ==
    /\ clients = 1
    /\ Len(chan) = 1
    /\ wpc[1] = "handle"
    /\ WantsToSend
    /\ ~ENABLED (SendPing \/ SendAccess)
    /\ Cardinality(InFlight) = 2

Merges == 1..joined
RECURSIVE SamplesOf(_, _)
SamplesOf(kind, n) ==
    IF n = 0 THEN 0 ELSE Len(wstats[n][kind]) + SamplesOf(kind, n - 1)

ErrorReported == panic = Some("Error executing client requests")
Failed == {w \in Workers : wpc[w] = "err"}

\* C20 as stated: a worker's fatal error does not interrupt dispatch, and the
\* error is reported only after all workers have been joined: the join of
\* every worker has returned (here: in a run without an idle timeout).
C20_ErrorReportedAfterAllJoined ==
    /\ ErrorReported => (~sender /\ Len(sent) = NumEvents)
    /\ (ErrorReported /\ timed_out = {}) => joined + 1 >= clients

\* C20 amended: a worker's fatal error does not interrupt dispatch: a send
\* to a channel that has room goes through, and main reports an error only
\* once every event is sent and the sender dropped; it reports the error of
\* the failed worker that comes first in spawn order, when the join of that
\* worker returns, the workers spawned before it being joined and those after
\* it not; a run in which a worker failed never reports statistics.
C20_ErrorReportedAtItsJoin ==
    /\ ErrorReported =>
          /\ ~sender
          /\ Len(sent) = NumEvents
          /\ joined < clients
          /\ wpc[joined + 1] = "err"
          /\ \A w \in Merges : wpc[w] = "ok"
    /\ (Failed # {} /\ WantsToSend /\ Len(chan) < clients) =>
          ENABLED (SendPing \/ SendAccess)
    /\ (\E w \in Workers : \E k \in DOMAIN rpcs[w] : Answer(rpcs[w][k]) = "error") =>
          dpc # "reported"

\* The first of two workers failed; every event was sent all the same, and
\* the error is reported while the second worker, not joined, is still busy.
C20_Witness ==
    /\ ErrorReported
    /\ clients = 2
    /\ joined = 0
    /\ wpc[1] = "err"
    /\ Len(sent) = 3
    /\ wpc[2] = "handle"
    /\ Len(rpcs[2]) >= 1

\* ---------------------------------------------------------------------
\* The records as they are sent.

SentAccess(k) == sent[k].access
Replayed == trace_path # None
OrderChecked == panic = Some("Invalid timestamp order.")
Paced == slept # <<>> \/ prev_access_timestamp # None

\* The fields other than the ttl are those of record k of the file.
SentUnchanged(k) ==
    /\ sent[k].kind = "Access"
    /\ SentAccess(k).timestamp = File[k].timestamp
    /\ SentAccess(k).command = File[k].command
    /\ SentAccess(k).key = File[k].key
    /\ SentAccess(k).value = File[k].value

\* C21: without native time every Access event sent has no ttl, and the
\* dispatcher neither checks the order of the timestamps nor sleeps; with
\* native time every record is sent with the ttl it was decoded with; in
\* both modes timestamp, command, key and value are sent as decoded.
C21_TtlByMode ==
    Replayed =>
        /\ \A k \in 1..Len(sent) :
              /\ SentUnchanged(k)
              /\ SentAccess(k).ttl = IF native_time THEN File[k].ttl ELSE None
        /\ ~native_time => ~OrderChecked /\ ~Paced

\* A replay without native time of a file whose timestamps go down and whose
\* first record carries a ttl: all of it was sent, the ttl stripped.
C21_Witness ==
    /\ Replayed
    /\ ~native_time
    /\ Len(File) = 3
    /\ File[1].ttl # None
    /\ File[2].timestamp < File[1].timestamp
    /\ Len(sent) = 3
    /\ SentAccess(1).ttl = None

\* ---------------------------------------------------------------------
\* Which events a run sends.

Pings == { k \in 1..Len(sent) : sent[k].kind = "Ping" }
Accesses == { k \in 1..Len(sent) : sent[k].kind = "Access" }
DispatchDone == ~sender

\* The k-th event sent is record k of the file.
InFileOrder(k) == sent[k].id = k /\ SentUnchanged(k)

\* C22: a run without a trace path sends Ping events only, never more than
\* PING_TEST_COUNT and exactly PING_TEST_COUNT once the dispatcher is done
\* sending; a run with a trace path sends Access events only, the k-th one
\* being record k of the file, one per record once the dispatcher is done
\* sending; no run sends both a Ping and an Access event.
C22_PingsOrAccesses ==
    /\ Pings = {} \/ Accesses = {}
    /\ trace_path = None =>
          /\ Accesses = {}
          /\ Cardinality(Pings) <= PING_TEST_COUNT
          /\ DispatchDone => Cardinality(Pings) = PING_TEST_COUNT
    /\ trace_path # None =>
          /\ Pings = {}
          /\ Cardinality(Accesses) <= Len(File)
          /\ \A k \in Accesses : InFileOrder(k)
          /\ DispatchDone => Cardinality(Accesses) = Len(File)

\* A finished run without a trace: PING_TEST_COUNT pings went out and
\* nothing else.
C22_Witness ==
    /\ trace_path = None
    /\ dpc = "reported"
    /\ Cardinality(Pings) = PING_TEST_COUNT
    /\ Accesses = {}
    /\ \A k \in Pings : executed[k] # <<>>

====
